---- MODULE Spec2Model ----
(***************************************************************************)
(* A model of the SP500_Momentum repository: the backtest of backtest.py   *)
(* (mover ranking, allocation, simulated trades, PnL accounting, the CSV   *)
(* trade log and the performance report as __main__ drives them) and the   *)
(* live mover ranking of trading_opportunities.py.                         *)
(*                                                                         *)
(* Prices are integers.  Every number the program computes from them is a  *)
(* float; it is modelled as an exact rational n/d or one of the IEEE       *)
(* values inf, -inf, nan, because the DataFrame cells are numpy floats for *)
(* which a division by zero yields inf or nan (with a warning) and does    *)
(* not raise.  allocation_pct is an integer (1 or -1).                     *)
(***************************************************************************)
EXTENDS Integers, Sequences, FiniteSets, TLC

\* ------------------------------------------------------------------ bounds
\* dates of the price store, and daily bars in one market-data response
NumDates == 2
\* prices are 0..MaxPrice
MaxPrice == 1
\* symbols of the live universe (SP500_SYMBOLS)
NumSyms == 2

\* ------------------------------------------------------- program constants
\* movers[:10] and movers[-10:]
TopN == 10
\* allocation = cash_balance * allocation_pct / 20
PositionCount == 20

\* ----------------------------------------------------------------- numbers
Fin(i) == [k |-> "fin", n |-> i, d |-> 1]
Rat(i, j) == [k |-> "fin", n |-> i, d |-> j]
Inf == [k |-> "inf", n |-> 0, d |-> 1]
NInf == [k |-> "ninf", n |-> 0, d |-> 1]
NaN == [k |-> "nan", n |-> 0, d |-> 1]

IsFin(x) == x.k = "fin"
IsZero(x) == x.k = "fin" /\ x.n = 0

\* sign of a number other than nan: -1, 0 or 1
Sign(x) ==
  CASE x.k = "inf" -> 1
    [] x.k = "ninf" -> -1
    [] x.k = "fin" -> (IF x.n > 0 THEN 1 ELSE IF x.n < 0 THEN -1 ELSE 0)
    [] OTHER -> 0

Signed(s) == IF s > 0 THEN Inf ELSE IF s < 0 THEN NInf ELSE NaN

\* -x
XNeg(x) ==
  CASE x.k = "fin" -> Rat(-x.n, x.d)
    [] x.k = "inf" -> NInf
    [] x.k = "ninf" -> Inf
    [] OTHER -> NaN

\* x + y
XAdd(x, y) ==
  CASE x.k = "nan" \/ y.k = "nan" -> NaN
    [] x.k = "fin" /\ y.k = "fin" ->
         IF x.d = y.d THEN Rat(x.n + y.n, x.d) ELSE Rat(x.n * y.d + y.n * x.d, x.d * y.d)
    [] x.k = "fin" -> y
    [] y.k = "fin" -> x
    [] x.k = y.k -> x
    [] OTHER -> NaN

\* x * i, i an integer
XMulInt(x, i) ==
  CASE x.k = "nan" -> NaN
    [] x.k = "fin" -> Rat(x.n * i, x.d)
    [] OTHER -> Signed(Sign(x) * i)

\* x / i, the true division by a non-zero integer
XDivInt(x, i) ==
  CASE x.k = "fin" -> IF i > 0 THEN Rat(x.n, x.d * i) ELSE Rat(-x.n, x.d * (-i))
    [] x.k = "nan" -> NaN
    [] OTHER -> Signed(Sign(x) * i)

\* x < y as floats compare: false whenever either side is nan
ISLT(x, y) ==
  CASE x.k = "nan" \/ y.k = "nan" -> FALSE
    [] x.k = "fin" /\ y.k = "fin" -> x.n * y.d < y.n * x.d
    [] x.k = "ninf" -> y.k # "ninf"
    [] y.k = "inf" -> x.k # "inf"
    [] OTHER -> FALSE

\* x // price, the floor division of numpy floats.  A finite x over price 0
\* is inf (signed) or nan depending on the numpy release (fdz); 0 // 0 and
\* inf // p are nan.
XFloorDiv(x, price, fdz) ==
  CASE x.k = "nan" -> NaN
    [] price = 0 -> IF fdz = "nan" THEN NaN ELSE Signed(Sign(x))
    [] x.k = "fin" -> Fin(x.n \div (x.d * price))
    [] OTHER -> NaN

\* ------------------------------------------------------------- list.sort
\* movers.sort(key=lambda x: x[1], reverse=True) as CPython runs it on a list
\* shorter than 64: the list is reversed, sorted ascending and stably by a
\* binary insertion sort that extends the initial run, and reversed again.
\* The comparison is the float <, so a nan key is never moved by it.
RECURSIVE Reverse(_)
Reverse(s) == IF Len(s) = 0 THEN << >> ELSE Append(Reverse(Tail(s)), Head(s))

KeyLT(a, b) == ISLT(a.change, b.change)

\* length of the run that starts the list, and whether it is descending
RECURSIVE RunEnd(_, _, _)
RunEnd(a, i, desc) ==
  IF i > Len(a) THEN i - 1
  ELSE IF KeyLT(a[i], a[i - 1]) = desc THEN RunEnd(a, i + 1, desc)
  ELSE i - 1

CountRun(a) ==
  LET desc == KeyLT(a[2], a[1])
  IN [n |-> RunEnd(a, 3, desc), descending |-> desc]

\* the slot of pivot in the sorted prefix a[l .. r-1]
RECURSIVE BinarySearch(_, _, _, _)
BinarySearch(pivot, a, l, r) ==
  IF l >= r THEN l
  ELSE LET p == l + ((r - l) \div 2)
       IN IF KeyLT(pivot, a[p]) THEN BinarySearch(pivot, a, l, p)
          ELSE BinarySearch(pivot, a, p + 1, r)

\* a with a[start] moved to slot pos <= start
MoveTo(a, start, pos) ==
  SubSeq(a, 1, pos - 1) \o <<a[start]>> \o SubSeq(a, pos, start - 1)
    \o SubSeq(a, start + 1, Len(a))

RECURSIVE BinarySort(_, _)
BinarySort(a, start) ==
  IF start > Len(a) THEN a
  ELSE BinarySort(MoveTo(a, start, BinarySearch(a[start], a, 1, start)), start + 1)

SortAscending(a) ==
  IF Len(a) < 2 THEN a
  ELSE LET run == CountRun(a)
           b == IF run.descending
                THEN Reverse(SubSeq(a, 1, run.n)) \o SubSeq(a, run.n + 1, Len(a))
                ELSE a
       IN BinarySort(b, run.n + 1)

SortDescending(a) == Reverse(SortAscending(Reverse(a)))

\* ------------------------------------------------------------ price store
\* historical_data: a sequence of series in the dict's key order; a symbol is
\* its position.  A series maps each date to a bar, or to NoBar when the
\* date is not in the series' index.
Dates == 1..NumDates
Prices == 0..MaxPrice

NoBar == [has |-> FALSE, open |-> 0, close |-> 0]
Bar(o, c) == [has |-> TRUE, open |-> o, close |-> c]
FillerBar == Bar(1, 1)

Cells == {NoBar} \cup {Bar(o, c) : o \in Prices, c \in Prices}

\* The stores explored: the empty store; one symbol with any series; and
\* stores of TopN + 1 symbols (the narrowest in which the top and bottom
\* slices differ) whose first symbol has any series and whose other symbols
\* have a filler bar on every date, but for the last symbol, whose series
\* may start one date late.
WideStore(first, late) ==
  [s \in 1..(TopN + 1) |->
     IF s = 1 THEN first
     ELSE [d \in Dates |-> IF s = TopN + 1 /\ d = 1 /\ late THEN NoBar ELSE FillerBar]]

Stores ==
  {<< >>}
    \cup {<<f>> : f \in [Dates -> Cells]}
    \cup {WideStore(f, late) : f \in [Dates -> Cells], late \in BOOLEAN}

\* (cash, allocation_pct) of the calls explored
Configs == {<<100, 1>>, <<20, 1>>, <<0, 1>>, <<100, -1>>}

Symbols(store) == 1..Len(store)

\* date in historical_data[s].index
InIndex(store, s, date) == store[s][date].has

\* the dates of a series, ascending: sorted(list(df.index))
RECURSIVE SortedDates(_, _)
SortedDates(series, d) ==
  IF d > NumDates THEN << >>
  ELSE (IF series[d].has THEN <<d>> ELSE << >>) \o SortedDates(series, d + 1)

\* ----------------------------------------------------- backtest.py ranking
\* calculate_percentage_change of backtest.py: no guard on a zero divisor
CalculatePercentageChange(previous_close, today_open) ==
  IF previous_close = 0 THEN Signed(today_open - previous_close)
  ELSE IF previous_close > 0
       THEN Rat((today_open - previous_close) * 100, previous_close)
       ELSE Rat(-(today_open - previous_close) * 100, -previous_close)

\* The close that get_top_and_bottom_movers passes as prev_close
PrevClose(store, s, date) == store[s][date].close

\* the loop of get_top_and_bottom_movers: one (symbol, change) per symbol
\* that has a bar at date, in the dict's order
RECURSIVE Movers(_, _, _)
Movers(store, date, s) ==
  IF s > Len(store) THEN << >>
  ELSE (IF InIndex(store, s, date)
        THEN <<[symbol |-> s,
                change |-> CalculatePercentageChange(PrevClose(store, s, date),
                                                     store[s][date].open)]>>
        ELSE << >>) \o Movers(store, date, s + 1)

RankedMovers(store, date) == SortDescending(Movers(store, date, 1))

\* movers[:10]
Top10(movers) == SubSeq(movers, 1, IF Len(movers) < TopN THEN Len(movers) ELSE TopN)

\* the last slice with the symbols of the first slice removed
Bottom10Deduplicated(movers) ==
  SelectSeq(SubSeq(movers, (IF Len(movers) < TopN THEN 0 ELSE Len(movers) - TopN) + 1,
                   Len(movers)),
            LAMBDA m : \A i \in 1..Len(Top10(movers)) : Top10(movers)[i].symbol # m.symbol)

\* movers[-10:]
Bottom10(movers) ==
  SubSeq(movers, (IF Len(movers) < TopN THEN 0 ELSE Len(movers) - TopN) + 1, Len(movers))

\* ------------------------------------------------------ simulated trading
\* {s: historical_data[s].loc[date, field] for s in historical_data
\*    if date in historical_data[s].index}
OpenPrices(store, date) ==
  [s \in {t \in Symbols(store) : InIndex(store, t, date)} |-> store[s][date].open]

ClosePrices(store, date) ==
  [s \in {t \in Symbols(store) : InIndex(store, t, date)} |-> store[s][date].close]

\* allocation = cash_balance * allocation_pct / 20
Allocation(balance, pct) == XDivInt(XMulInt(balance, pct), PositionCount)

\* the dictionary place_trades appends for one mover
Position(symbol, allocation, price, trade_type, fdz) ==
  LET quantity == XFloorDiv(allocation, price, fdz)
  IN [symbol |-> symbol,
      quantity |-> IF trade_type = "buy" THEN quantity ELSE XNeg(quantity),
      price |-> price,
      trade_type |-> trade_type]

PlaceTrades(portfolio, movers, allocation, prices, trade_type, fdz) ==
  LET kept == SelectSeq(movers, LAMBDA m : m.symbol \in DOMAIN prices)
  IN portfolio \o
       [i \in 1..Len(kept) |->
          Position(kept[i].symbol, allocation, prices[kept[i].symbol], trade_type, fdz)]

\* prices.get(symbol, 0)
Get(prices, symbol) == IF symbol \in DOMAIN prices THEN prices[symbol] ELSE 0

ClosingTrade(position, prices) ==
  [symbol |-> position.symbol,
   quantity |-> XNeg(position.quantity),
   price |-> Get(prices, position.symbol),
   trade_type |-> "close"]

ClosingTrades(portfolio, prices) ==
  [i \in 1..Len(portfolio) |-> ClosingTrade(portfolio[i], prices)]

\* pnl += (close_price - position['price']) * position['quantity'], in order
RECURSIVE Pnl(_, _, _)
Pnl(portfolio, prices, i) ==
  IF i = 0 THEN Fin(0)
  ELSE XAdd(Pnl(portfolio, prices, i - 1),
            XMulInt(portfolio[i].quantity,
                    Get(prices, portfolio[i].symbol) - portfolio[i].price))

\* log_trades_to_csv: the header when the file is new, then one row a trade
LogTradesToCsv(file, date, trades) ==
  [exists |-> TRUE,
   header |-> IF file.exists THEN file.header ELSE file.header + 1,
   rows |-> file.rows \o
            [i \in 1..Len(trades) |->
               [date |-> date,
                symbol |-> trades[i].symbol,
                quantity |-> trades[i].quantity,
                price |-> trades[i].price,
                trade_type |-> trades[i].trade_type]]]

NoFile == [exists |-> FALSE, header |-> 0, rows |-> << >>]

\* a log left by an earlier run
StaleFile ==
  [exists |-> TRUE, header |-> 1,
   rows |-> <<[date |-> 0, symbol |-> 1, quantity |-> Fin(1), price |-> 1,
               trade_type |-> "buy"]>>]

\* -------------------------------------------------------------- analysis
\* sum(xs[:i]) from 0, left to right
RECURSIVE Sum(_, _)
Sum(xs, i) == IF i = 0 THEN Fin(0) ELSE XAdd(Sum(xs, i - 1), xs[i])

\* cumulative_pnl of analyze_performance
CumulativePnl(pnl) == [i \in 1..Len(pnl) |-> Sum(pnl, i)]

\* the value analyze_performance prints as "Final Portfolio Value"
FinalPortfolioValue(pnl, cash_arg) ==
  LET cumulative_pnl == CumulativePnl(pnl)
  IN XAdd(cash_arg, Sum(cumulative_pnl, Len(cumulative_pnl)))

\* ------------------------------------------ trading_opportunities.py ranking
\* what the market-data request of get_daily_bar can come back with: a
\* failure, a body without bars, or a list of daily bars
Responses ==
  {[status |-> "error", bars |-> << >>], [status |-> "none", bars |-> << >>]}
    \cup UNION {{[status |-> "ok", bars |-> b] :
                   b \in [1..n -> {Bar(o, c) : o \in Prices, c \in Prices}]} :
                n \in 0..NumDates}

\* get_daily_bar: <<previous_close, today_open>>, or << >> for (None, None)
GetDailyBar(response) ==
  IF response.status = "ok" /\ Len(response.bars) >= 2
  THEN <<response.bars[Len(response.bars) - 1].close,
         response.bars[Len(response.bars)].open>>
  ELSE << >>

\* calculate_percentage_change of trading_opportunities.py
LiveCalculatePercentageChange(previous_close, today_open) ==
  IF previous_close = 0 THEN Fin(0)
  ELSE CalculatePercentageChange(previous_close, today_open)

\* ------------------------------------------------------------------ state
VARIABLES
  pc,               \* where the running script is
  historical_data,  \* backtest(): the price store passed in
  cash,             \* backtest(): the cash argument
  allocation_pct,   \* backtest(): the allocation_pct argument
  trade_log_file,   \* the CSV file: whether it exists, header lines, rows
  dates,            \* backtest(): the sorted dates of the first symbol
  di,               \* backtest(): position in dates of the next date
  portfolio,        \* backtest(): the list of positions
  pnl_history,      \* backtest(): the list of daily PnL
  cash_balance,     \* backtest(): the running balance
  movers,           \* the ranked list of the last call of the ranking
  top_movers,       \* its first slice
  bottom_movers,    \* its last slice
  allocation,       \* the per-position dollars last computed
  fdz,              \* what x // 0 yields in this build, once it was computed
  final_value,      \* what analyze_performance printed as the final value
  si,               \* live ranking: the next symbol of SP500_SYMBOLS
  daily_bar         \* live ranking: <<previous_close, today_open>> last fetched

vars ==
  <<pc, historical_data, cash, allocation_pct, trade_log_file, dates, di, portfolio,
    pnl_history, cash_balance, movers, top_movers, bottom_movers, allocation, fdz,
    final_value, si, daily_bar>>

\* backtest.py is run on a store, or trading_opportunities.py is run
Init ==
  /\ \/ /\ pc = "start"
        /\ historical_data \in Stores
        /\ \E c \in Configs : cash = c[1] /\ allocation_pct = c[2]
        /\ trade_log_file \in {NoFile, StaleFile}
     \/ /\ pc = "live"
        /\ historical_data = << >>
        /\ cash = 0
        /\ allocation_pct = 1
        /\ trade_log_file = NoFile
  /\ dates = << >>
  /\ di = 1
  /\ portfolio = << >>
  /\ pnl_history = << >>
  /\ cash_balance = Fin(0)
  /\ movers = << >>
  /\ top_movers = << >>
  /\ bottom_movers = << >>
  /\ allocation = Fin(0)
  /\ fdz = "unknown"
  /\ final_value = Fin(0)
  /\ si = 1
  /\ daily_bar = << >>

\* ----------------------------------------------------------- backtest()
\* backtest(), up to the loop: the locals, the removal of an old log, and
\* the dates of the first symbol (an IndexError when the store has none)
BacktestStart ==
  /\ pc = "start"
  /\ portfolio' = << >>
  /\ pnl_history' = << >>
  /\ cash_balance' = Fin(cash)
  /\ trade_log_file' = NoFile
  /\ \/ /\ Len(historical_data) = 0
        /\ pc' = "IndexError"
        /\ dates' = dates
     \/ /\ Len(historical_data) > 0
        /\ pc' = "loop"
        /\ dates' = SortedDates(historical_data[1], 1)
  /\ UNCHANGED <<historical_data, cash, allocation_pct, di, movers, top_movers,
                 bottom_movers, allocation, fdz, final_value, si, daily_bar>>

\* whether the day's sizing divides by a zero price
DividesByZero(tops, bottoms, prices) ==
  \E i \in 1..Len(tops \o bottoms) : Get(prices, (tops \o bottoms)[i].symbol) = 0

\* the portfolio carried over from the day before
KeptPortfolio(old) == old

\* the portfolio at the start of a day: portfolio.clear()
ClearedPortfolio(old) == << >>

\* the initial cash on every day
AllocationBaseInitial(balance, initial) == initial

\* the balance the day's allocation is computed from
AllocationBase(balance, initial) == balance

\* the close records written before the openings
LogDayClosedFirst(file, date, opened, closed) ==
  LogTradesToCsv(LogTradesToCsv(file, date, closed), date, opened)

\* the opening and closing writes of one day, in the order the body makes them
LogDay(file, date, opened, closed) ==
  LogTradesToCsv(LogTradesToCsv(file, date, opened), date, closed)

\* one pass of the loop of backtest() over dates[di]; each local of the
\* body is bound once, in the order the body computes it
ProcessDate ==
  /\ pc = "loop"
  /\ di <= Len(dates)
  /\ \E ranked \in {RankedMovers(historical_data, dates[di])} :
     \E prices \in {OpenPrices(historical_data, dates[di])} :
     \E prices_close \in {ClosePrices(historical_data, dates[di])} :
     \E alloc \in {Allocation(AllocationBase(cash_balance, Fin(cash)), allocation_pct)} :
     \E f \in (IF fdz = "unknown" /\ DividesByZero(Top10(ranked), Bottom10(ranked), prices)
               THEN {"inf", "nan"} ELSE {fdz}) :
     \E bought \in {PlaceTrades(ClearedPortfolio(portfolio), Top10(ranked), alloc, prices,
                                "buy", f)} :
     \E opened \in {PlaceTrades(bought, Bottom10(ranked), alloc, prices, "sell", f)} :
       /\ fdz' = f
       /\ movers' = ranked
       /\ top_movers' = Top10(ranked)
       /\ bottom_movers' = Bottom10(ranked)
       /\ allocation' = alloc
       /\ portfolio' = opened
       /\ trade_log_file' =
            LogDay(trade_log_file, dates[di], opened, ClosingTrades(opened, prices_close))
       /\ pnl_history' = Append(pnl_history, Pnl(opened, prices_close, Len(opened)))
       /\ cash_balance' = XAdd(cash_balance, Pnl(opened, prices_close, Len(opened)))
  /\ di' = di + 1
  /\ UNCHANGED <<pc, historical_data, cash, allocation_pct, dates, final_value, si, daily_bar>>

\* return pnl_history, cash_balance
BacktestReturn ==
  /\ pc = "loop"
  /\ di > Len(dates)
  /\ pc' = "returned"
  /\ UNCHANGED <<historical_data, cash, allocation_pct, trade_log_file, dates, di,
                 portfolio, pnl_history, cash_balance, movers, top_movers,
                 bottom_movers, allocation, fdz, final_value, si, daily_bar>>

\* the cash value the driver hands to analyze_performance: final_cash
DriverCash(initial, final) == final

\* analyze_performance(pnl_history, final_cash), as __main__ calls it
AnalyzePerformance ==
  /\ pc = "returned"
  /\ final_value' = FinalPortfolioValue(pnl_history, DriverCash(Fin(cash), cash_balance))
  /\ pc' = "analyzed"
  /\ UNCHANGED <<historical_data, cash, allocation_pct, trade_log_file, dates, di,
                 portfolio, pnl_history, cash_balance, movers, top_movers,
                 bottom_movers, allocation, fdz, si, daily_bar>>

\* ------------------------------- trading_opportunities.py ranking, live
\* one pass of the loop of get_top_and_bottom_movers over SP500_SYMBOLS
LiveFetch ==
  /\ pc = "live"
  /\ si <= NumSyms
  /\ \E r \in Responses :
       /\ daily_bar' = GetDailyBar(r)
       /\ movers' =
            IF GetDailyBar(r) = << >> THEN movers
            ELSE Append(movers,
                        [symbol |-> si,
                         change |-> LiveCalculatePercentageChange(GetDailyBar(r)[1],
                                                                  GetDailyBar(r)[2])])
  /\ si' = si + 1
  /\ UNCHANGED <<pc, historical_data, cash, allocation_pct, trade_log_file, dates, di,
                 portfolio, pnl_history, cash_balance, top_movers, bottom_movers,
                 allocation, fdz, final_value>>

\* the end of get_top_and_bottom_movers: sort, slice, return
LiveRank ==
  /\ pc = "live"
  /\ si > NumSyms
  /\ \E ranked \in {SortDescending(movers)} :
       /\ movers' = ranked
       /\ top_movers' = Top10(ranked)
       /\ bottom_movers' = Bottom10(ranked)
  /\ pc' = "ranked"
  /\ UNCHANGED <<historical_data, cash, allocation_pct, trade_log_file, dates, di,
                 portfolio, pnl_history, cash_balance, allocation, fdz, final_value,
                 si, daily_bar>>

Next ==
  \/ BacktestStart
  \/ ProcessDate
  \/ BacktestReturn
  \/ AnalyzePerformance
  \/ LiveFetch
  \/ LiveRank

Spec == Init /\ [][Next]_vars

\* ============================================================= the claims
\* backtest() is between its first and its last statement, or has returned
InBacktest == pc \in {"loop", "returned", "analyzed"}

\* the date the last pass of the loop processed
LastDate == dates[di - 1]

Rows == trade_log_file.rows

DateRows(d) == SelectSeq(Rows, LAMBDA r : r.date = d)
OpeningRows(d) == SelectSeq(Rows, LAMBDA r : r.date = d /\ r.trade_type # "close")
CloseRows(d) == SelectSeq(Rows, LAMBDA r : r.date = d /\ r.trade_type = "close")

\* the greatest date before d at which series has a bar, or 0
RECURSIVE PrecedingDate(_, _)
PrecedingDate(series, d) ==
  IF d <= 1 THEN 0
  ELSE IF series[d - 1].has THEN d - 1 ELSE PrecedingDate(series, d - 1)

\* ---- C1 ----------------------------------------------------------------
\* C1: after k processed dates cash_balance is the initial cash plus the
\* first k entries of pnl_history, and the allocation of the k-th date was
\* computed from the initial cash plus the PnL of the k-1 dates before it.
C1_CashCompounds ==
  InBacktest =>
    /\ Len(pnl_history) = di - 1
    /\ cash_balance = XAdd(Fin(cash), Sum(pnl_history, di - 1))
    /\ di > 1 =>
         allocation = Allocation(XAdd(Fin(cash), Sum(pnl_history, di - 2)), allocation_pct)

\* two dates processed, the first with a finite non-zero PnL, so that the
\* second allocation differs from the one the initial cash would give
C1_Witness ==
  /\ pc = "returned"
  /\ Len(pnl_history) = 2
  /\ IsFin(pnl_history[1]) /\ pnl_history[1].n # 0
  /\ IsFin(allocation)
  /\ allocation # Allocation(Fin(cash), allocation_pct)

\* ---- C2 ----------------------------------------------------------------
\* C2: every mover the backtest ranks at a date has a preceding bar in its
\* own series, its percent_change is computed from the open at the date and
\* the close of that preceding bar, and a symbol without one is skipped.
C2_ChangeFromPrecedingClose ==
  (InBacktest /\ di > 1) =>
    \A i \in 1..Len(movers) :
      LET series == historical_data[movers[i].symbol]
          prev == PrecedingDate(series, LastDate)
      IN /\ prev # 0
         /\ prev # 0 =>
              movers[i].change =
                CalculatePercentageChange(series[prev].close, series[LastDate].open)

\* ---- C3 ----------------------------------------------------------------
\* C3: no position of the portfolio and no row of the trade log written by
\* the backtest has quantity 0.
C3_NoZeroQuantity ==
  InBacktest =>
    /\ \A i \in 1..Len(portfolio) : ~IsZero(portfolio[i].quantity)
    /\ \A i \in 1..Len(Rows) : ~IsZero(Rows[i].quantity)

\* ---- C4 ----------------------------------------------------------------
TypeRank(t) == IF t = "buy" THEN 1 ELSE IF t = "sell" THEN 2 ELSE 3

SymbolsOf(seq) == [i \in 1..Len(seq) |-> seq[i].symbol]
TypesOf(seq) == [i \in 1..Len(seq) |-> seq[i].trade_type]

\* C4: in the trade log the dates ascend; within a date the buys come first,
\* then the sells, then the close records, which follow the order of their
\* openings; the buys of a date are the top movers in rank order and the
\* sells the bottom movers in rank order; with one top and one bottom mover
\* the date's records are buy, sell, close, close.
C4_LogOrdered ==
  InBacktest =>
    /\ \A i \in 1..(Len(Rows) - 1) :
         \/ Rows[i].date < Rows[i + 1].date
         \/ /\ Rows[i].date = Rows[i + 1].date
            /\ TypeRank(Rows[i].trade_type) <= TypeRank(Rows[i + 1].trade_type)
    /\ \A d \in Dates : SymbolsOf(CloseRows(d)) = SymbolsOf(OpeningRows(d))
    /\ di > 1 =>
         /\ SymbolsOf(SelectSeq(DateRows(LastDate), LAMBDA r : r.trade_type = "buy"))
              = SymbolsOf(top_movers)
         /\ SymbolsOf(SelectSeq(DateRows(LastDate), LAMBDA r : r.trade_type = "sell"))
              = SymbolsOf(bottom_movers)
         /\ (Len(top_movers) = 1 /\ Len(bottom_movers) = 1) =>
              TypesOf(DateRows(LastDate)) = <<"buy", "sell", "close", "close">>

\* a run over two dates, each with one top and one bottom mover
C4_Witness ==
  /\ pc = "returned"
  /\ Len(dates) = 2
  /\ Len(top_movers) = 1 /\ Len(bottom_movers) = 1
  /\ Len(Rows) = 8
  /\ Rows[1].date < Rows[8].date

\* ---- C5 ----------------------------------------------------------------
\* C5: a symbol whose previous close is 0 is ranked with percent_change 0,
\* by the backtest ranking and by the live ranking.
C5_ZeroCloseGivesZero ==
  /\ (InBacktest /\ di > 1) =>
       \A i \in 1..Len(movers) :
         PrevClose(historical_data, movers[i].symbol, LastDate) = 0
           => movers[i].change = Fin(0)
  /\ (pc = "live" /\ daily_bar # << >>) =>
       (daily_bar[1] = 0 => movers[Len(movers)].change = Fin(0))

\* ---- C6 ----------------------------------------------------------------
Min(a, b) == IF a < b THEN a ELSE b

HasPosition(symbol, trade_type) ==
  \E i \in 1..Len(portfolio) :
    portfolio[i].symbol = symbol /\ portfolio[i].trade_type = trade_type

\* C6: the ranked list is in descending order of percent_change (nan keys
\* aside); top is its first min(10, n) entries and bottom its last
\* min(10, n); a symbol in a position the two slices share is in both, and
\* the backtest opens a buy and a sell for it on that date.
C6_SlicesOverlap ==
  (InBacktest /\ di > 1) =>
    LET n == Len(movers)
        k == Min(TopN, n)
    IN /\ (\A i \in 1..n : movers[i].change.k # "nan") =>
            \A i \in 1..(n - 1) : ~ISLT(movers[i].change, movers[i + 1].change)
       /\ Len(top_movers) = k
       /\ Len(bottom_movers) = k
       /\ \A i \in 1..k : top_movers[i] = movers[i] /\ bottom_movers[i] = movers[n - k + i]
       /\ \A j \in (n - k + 1)..k :
            /\ HasPosition(movers[j].symbol, "buy")
            /\ HasPosition(movers[j].symbol, "sell")
       /\ Len(portfolio) = 2 * k

\* TopN + 1 movers: the first is bought only, the last sold only, the rest both
C6_Witness ==
  /\ InBacktest /\ di > 1
  /\ Len(movers) = TopN + 1
  /\ HasPosition(movers[1].symbol, "buy") /\ ~HasPosition(movers[1].symbol, "sell")
  /\ HasPosition(movers[2].symbol, "buy") /\ HasPosition(movers[2].symbol, "sell")
  /\ ISLT(movers[TopN + 1].change, movers[1].change)

\* ---- C7 ----------------------------------------------------------------
\* C7: for every store backtest() ends normally with one PnL entry per date
\* of the first symbol's series, and a date without a trade contributes 0.
C7_AlwaysCompletes ==
  /\ pc # "IndexError"
  /\ pc \in {"returned", "analyzed"} => Len(pnl_history) = Len(dates)
  /\ (InBacktest /\ di > 1 /\ portfolio = << >>) => pnl_history[di - 1] = Fin(0)

\* ---- C8 ----------------------------------------------------------------
\* C8: a call with a negative deployment fraction is rejected before any
\* date is processed: nothing is ranked, logged or appended to pnl_history.
C8_InvalidRejected ==
  allocation_pct < 0 =>
    /\ di = 1
    /\ movers = << >>
    /\ pnl_history = << >>
    /\ pc # "start" => Rows = << >>

\* ---- C9 ----------------------------------------------------------------
\* C9: the final portfolio value the driver reports is the initial cash
\* plus the sum of pnl_history.
C9_FinalValue ==
  pc = "analyzed" =>
    final_value = XAdd(Fin(cash), Sum(pnl_history, Len(pnl_history)))

\* ---- C10 ---------------------------------------------------------------
\* the PnL of the positions the log shows opened at date d
RECURSIVE RowsPnl(_, _, _)
RowsPnl(opened, d, i) ==
  IF i = 0 THEN Fin(0)
  ELSE XAdd(RowsPnl(opened, d, i - 1),
            XMulInt(opened[i].quantity,
                    historical_data[opened[i].symbol][d].close - opened[i].price))

\* C10: at every date the close records match the positions opened at that
\* date one to one (same symbol, quantity negated, priced at that date's
\* close), every position was entered at that date's open, the portfolio
\* holds that date's positions only, and the date's PnL is theirs alone.
C10_Intraday ==
  InBacktest =>
    /\ \A j \in 1..(di - 1) :
         LET d == dates[j]
             opened == OpeningRows(d)
             closed == CloseRows(d)
         IN /\ Len(closed) = Len(opened)
            /\ \A i \in 1..Len(opened) :
                 /\ closed[i].symbol = opened[i].symbol
                 /\ closed[i].quantity = XNeg(opened[i].quantity)
                 /\ closed[i].price = historical_data[opened[i].symbol][d].close
                 /\ opened[i].price = historical_data[opened[i].symbol][d].open
            /\ pnl_history[j] = RowsPnl(opened, d, Len(opened))
    /\ di > 1 => Len(portfolio) = Len(top_movers) + Len(bottom_movers)

\* two dates with trades; a position of the first date made a loss, and the
\* first symbol's open differs between the dates
C10_Witness ==
  /\ pc = "returned"
  /\ Len(dates) = 2
  /\ Len(OpeningRows(dates[1])) > 0 /\ Len(OpeningRows(dates[2])) > 0
  /\ IsFin(pnl_history[1]) /\ pnl_history[1].n < 0
  /\ historical_data[1][dates[1]].open # historical_data[1][dates[2]].open

====
